---- MODULE Spec2Model ----
(***************************************************************************)
(* Model of the animation editor controller of the Fyrox scene editor      *)
(* (editor/src/animation/mod.rs): the selection resolver fetch_selection,  *)
(* the event path AnimationEditor::handle_ui_message, the render path      *)
(* AnimationEditor::sync_to_model and AnimationEditor::open.               *)
(*                                                                         *)
(* The scene graph, the animation containers and the editor selection are  *)
(* owned by the rest of the editor; they are state that the environment    *)
(* changes between two calls.  `ui` and `sender` hold what the most recent *)
(* call pushed to the user interface queue and to the command channel.     *)
(***************************************************************************)
EXTENDS Integers, Sequences, FiniteSets, TLC

\* ------------------------------------------------------------------ bounds
MaxTracks == 2          \* tracks of an animation
MaxEntities == 2        \* entries of AnimationSelection::entities
MaxSelectedNodes == 2   \* nodes of a graph selection

\* ------------------------------------------------------------------- state
VARIABLES
    selection,      \* editor_scene.selection
    graph,          \* engine.scenes[editor_scene.scene].graph
    lastOp,         \* the entry point called last; "none" after a change of the scene
    message,        \* the UiMessage given to the last handle_ui_message
    scene_given,    \* whether that call was given Some(editor_scene)
    resolved,       \* the AnimationSelection the last call worked with
    ui,             \* messages the last call sent to engine.user_interface
    sender,         \* messages the last call sent to the command channel
    prev_sync,      \* what the call before the last sent, when it was sync_to_model
    log,            \* what the last call did, in program order
    outcome,        \* whether the last call returned or panicked
    receiver_alive, \* whether the receiver of the command channel still exists
    content_visible \* the visibility of the content panel

vars == <<selection, graph, lastOp, message, scene_given, resolved, ui, sender, prev_sync,
          log, outcome, receiver_alive, content_visible>>

\* Handle::NONE, the value of Default::default() for a handle.
NONE == 0

\* The handles of the scene graph and the identities of curves.
Nodes == { 1, 2 }
CurveIds == { 1, 2 }
\* The animation container of a player has one slot; handle 1 names it.
AnimationHandles == {NONE, 1}

\* ------------------------------------------------------------ animation data
\* A key frame is <<time, value>>.
KeySeqs == { << <<0, 0>>, <<1, 1>> >>, << <<0, 1>> >> }
Curves == [id : CurveIds, keys : KeySeqs]
NoCurve == [id |-> 0, keys |-> << >>]
\* The curves of the scene: the key frames of a stored curve go by its identity.
StoredKeys(id) == IF id % 2 = 1 THEN << <<0, 0>>, <<1, 1>> >> ELSE << <<0, 1>> >>
StoredCurves == { [id |-> id, keys |-> StoredKeys(id)] : id \in CurveIds }

\* A track is the curve sequence of its frames container (at most one curve
\* per track here); an animation is its sequence of tracks.
TrackValues == { << >> } \cup { <<c>> : c \in StoredCurves }
RECURSIVE SeqsUpTo(_, _)
SeqsUpTo(S, n) ==
    IF n = 0 THEN { << >> }
    ELSE LET shorter == SeqsUpTo(S, n - 1)
         IN  shorter \cup { Append(s, x) : s \in { t \in shorter : Len(t) = n - 1 }, x \in S }
Animations == SeqsUpTo(TrackValues, MaxTracks)


\* ------------------------------------------------------------- scene graph
\* A graph slot is free (a handle to it is stale), holds a node without the
\* AnimationPlayer component, or holds a node with it.  A player owns an
\* animation container whose slot is free or holds an animation.
FreeSlot == [kind |-> "free", has_animation |-> FALSE, tracks |-> << >>]
PlainNode == [kind |-> "node", has_animation |-> FALSE, tracks |-> << >>]
PlayerNodes ==
    { [kind |-> "player", has_animation |-> FALSE, tracks |-> << >>] }
    \cup { [kind |-> "player", has_animation |-> TRUE, tracks |-> a] : a \in Animations }
NodeValues == { FreeSlot, PlainNode } \cup PlayerNodes

\* ---------------------------------------------------------------- selection
\* selection::SelectedEntity: a track or a curve, by identity.
TrackIds == { 1 }
SelectedEntities == [kind : {"Track"}, id : TrackIds] \cup [kind : {"Curve"}, id : CurveIds]
EntitySeqs == SeqsUpTo(SelectedEntities, MaxEntities)
NodeSeqs == SeqsUpTo(Nodes, MaxSelectedNodes)

\* scene::Selection: the Animation and Graph variants, and every other one.
AnimationScoped ==
    [scope : {"Animation"}, animation_player : {NONE} \cup Nodes,
     animation : AnimationHandles, entities : EntitySeqs, nodes : { << >> }]
GraphScoped ==
    [scope : {"Graph"}, animation_player : {NONE}, animation : {NONE},
     entities : { << >> }, nodes : NodeSeqs]
OtherSelection ==
    [scope |-> "None", animation_player |-> NONE, animation |-> NONE,
     entities |-> << >>, nodes |-> << >>]
Selections == AnimationScoped \cup GraphScoped \cup { OtherSelection }

\* Mutant: the last node of a graph selection instead of the first.
fetch_selection_LastNode(editor_selection) ==
    IF editor_selection.scope = "Animation" THEN
        [animation_player |-> editor_selection.animation_player,
         animation |-> editor_selection.animation,
         entities |-> editor_selection.entities]
    ELSE IF editor_selection.scope = "Graph" THEN
        [animation_player |-> IF Len(editor_selection.nodes) > 0
                              THEN editor_selection.nodes[Len(editor_selection.nodes)]
                              ELSE NONE,
         animation |-> NONE,
         entities |-> << >>]
    ELSE
        [animation_player |-> NONE, animation |-> NONE, entities |-> << >>]

\* fetch_selection: the AnimationSelection the editor works with.
fetch_selection(editor_selection) ==
    IF editor_selection.scope = "Animation" THEN
        [animation_player |-> editor_selection.animation_player,
         animation |-> editor_selection.animation,
         entities |-> editor_selection.entities]
    ELSE IF editor_selection.scope = "Graph" THEN
        [animation_player |-> IF Len(editor_selection.nodes) > 0
                              THEN Head(editor_selection.nodes) ELSE NONE,
         animation |-> NONE,
         entities |-> << >>]
    ELSE
        [animation_player |-> NONE, animation |-> NONE, entities |-> << >>]

\* ----------------------------------------------------------------- messages
\* A UiMessage: destination widget, direction and payload.  Every payload is
\* a record of one shape; the fields a variant does not carry keep a filler.
Widgets == { "window", "content", "toolbar", "track_list", "curve_editor", "ruler" }
Directions == { "ToWidget", "FromWidget" }
Vectors == { <<42, 0>>, <<3, 5>> }

Data(type, curve, vec, value, flag) ==
    [type |-> type, curve |-> curve, vec |-> vec, value |-> value, flag |-> flag]
UiMessage(destination, direction, data) ==
    [destination |-> destination, direction |-> direction, data |-> data]

\* CurveEditorMessage
CurveEditorSync(curve) == Data("CurveEditorMessage::Sync", curve, <<0, 0>>, 0, FALSE)
CurveEditorViewPosition(p) == Data("CurveEditorMessage::ViewPosition", NoCurve, p, 0, FALSE)
CurveEditorZoom(z) == Data("CurveEditorMessage::Zoom", NoCurve, z, 0, FALSE)
CurveEditorZoomToFit == Data("CurveEditorMessage::ZoomToFit", NoCurve, <<0, 0>>, 0, FALSE)
\* RulerMessage
RulerViewPosition(x) == Data("RulerMessage::ViewPosition", NoCurve, <<0, 0>>, x, FALSE)
RulerZoom(x) == Data("RulerMessage::Zoom", NoCurve, <<0, 0>>, x, FALSE)
\* WidgetMessage::Visibility and WindowMessage::Open
Visibility(flag) == Data("WidgetMessage::Visibility", NoCurve, <<0, 0>>, 0, flag)
WindowOpen(center) == Data("WindowMessage::Open", NoCurve, <<0, 0>>, 0, center)
\* Payloads of the toolbar and of the track list, and any other payload.
ToolbarData == Data("Toolbar", NoCurve, <<0, 0>>, 0, FALSE)
TrackListData(n) == Data("TrackList", NoCurve, <<0, 0>>, n, FALSE)
OtherData == Data("Other", NoCurve, <<0, 0>>, 0, FALSE)

CurveEditorData ==
    { CurveEditorSync(c) : c \in Curves }
    \cup { CurveEditorViewPosition(p) : p \in Vectors }
    \cup { CurveEditorZoom(z) : z \in Vectors }
    \cup { CurveEditorZoomToFit }
IsCurveEditorMessage(data) ==
    data.type \in { "CurveEditorMessage::Sync", "CurveEditorMessage::ViewPosition",
                    "CurveEditorMessage::Zoom", "CurveEditorMessage::ZoomToFit" }

NoMessage == UiMessage("window", "ToWidget", Data("None", NoCurve, <<0, 0>>, 0, FALSE))

\* Message::DoSceneCommand with the command it carries.
Command(type, animation_player, animation, curve) ==
    [type |-> type, animation_player |-> animation_player,
     animation |-> animation, curve |-> curve]
ReplaceTrackCurveCommand(animation_player, animation, curve) ==
    Command("ReplaceTrackCurveCommand", animation_player, animation, curve)

\* ------------------------------------------------------------ scene queries
\* graph.try_get(handle).and_then(query_component::<AnimationPlayer>)
try_get(g, handle) == handle \in Nodes /\ g[handle].kind # "free"
\* Mutant: any live node counts, the component is not queried.
HasAnimationPlayer_AnyNode(g, handle) == try_get(g, handle)
HasAnimationPlayer(g, handle) == try_get(g, handle) /\ g[handle].kind = "player"
\* animation_player.animations().try_get(handle)
HasAnimation(node, handle) == handle = 1 /\ node.has_animation

\* Mutant: the copy loses the last key.
CloneCurve_DropsKey(curve) ==
    [id |-> curve.id,
     keys |-> [i \in 1..(Len(curve.keys) - 1) |-> curve.keys[i]]]

\* Curve::clone: the identity and every key of the curve, in order.
CloneCurve(curve) ==
    [id |-> curve.id,
     keys |-> [i \in 1..Len(curve.keys) |-> curve.keys[i]]]

\* Mutant: the first curve of the track, whatever its identity.
FindInTrack_AnyId(track, id) ==
    IF track = << >> THEN NoCurve ELSE Head(track)

\* curves_ref().iter().find(|c| c.id() == id) on one track
RECURSIVE FindInTrack(_, _)
FindInTrack(track, id) ==
    IF track = << >> THEN NoCurve
    ELSE IF Head(track).id = id THEN Head(track)
    ELSE FindInTrack(Tail(track), id)
\* tracks().iter().find_map(..): the first track that holds the curve decides
RECURSIVE FindCurve(_, _)
FindCurve(tracks, id) ==
    IF tracks = << >> THEN NoCurve
    ELSE LET found == FindInTrack(Head(tracks), id)
         IN  IF found # NoCurve THEN found ELSE FindCurve(Tail(tracks), id)

\* ----------------------------------------------------------------- effects
\* What a call pushes out, in program order: a message to the user interface
\* queue (ui.send_message) or a message to the command channel (sender.send).
NoCommand == Command("None", NONE, NONE, NoCurve)
UiEffect(m) == [channel |-> "ui", message |-> m, command |-> NoCommand]
SenderEffect(c) == [channel |-> "sender", message |-> NoMessage, command |-> c]
\* The call of a method of the toolbar or of the track list.
CallEffect(callee) ==
    [channel |-> "call", message |-> NoMessage, command |-> Command(callee, NONE, NONE, NoCurve)]

\* Mutant: the result of the send is dropped instead of unwrapped.
Panics_ResultIgnored(effects, alive) == FALSE

\* sender.send(..).unwrap(): a send to a channel whose receiver is gone fails
\* and the unwrap panics; what the call would have done after it is not done.
RECURSIVE FirstSend(_)
FirstSend(effects) ==
    IF effects = << >> THEN 0
    ELSE IF Head(effects).channel = "sender" THEN 1
    ELSE LET rest == FirstSend(Tail(effects))
         IN  IF rest = 0 THEN 0 ELSE rest + 1
Panics(effects, alive) ==
    ~alive /\ FirstSend(effects) # 0
Completed(effects, alive) ==
    IF Panics(effects, alive) THEN SubSeq(effects, 1, FirstSend(effects) - 1) ELSE effects

\* The content panel after the visibility messages of a queue reached it.
RECURSIVE ShowOrHide(_, _)
ShowOrHide(visible, q) ==
    IF q = << >> THEN visible
    ELSE ShowOrHide(IF /\ Head(q).destination = "content"
                       /\ Head(q).data.type = "WidgetMessage::Visibility"
                    THEN Head(q).data.flag ELSE visible,
                    Tail(q))

RECURSIVE UiOf(_)
UiOf(effects) ==
    IF effects = << >> THEN << >>
    ELSE IF Head(effects).channel = "ui"
         THEN <<Head(effects).message>> \o UiOf(Tail(effects))
         ELSE UiOf(Tail(effects))
RECURSIVE SenderOf(_)
SenderOf(effects) ==
    IF effects = << >> THEN << >>
    ELSE IF Head(effects).channel = "sender"
         THEN <<Head(effects).command>> \o SenderOf(Tail(effects))
         ELSE SenderOf(Tail(effects))

\* ---------------------------------------------- toolbar and track list
\* Toolbar and TrackList live in the modules toolbar and track.  The toolbar
\* reacts to events of its own widgets with a toolbar command and refreshes
\* its controls on sync; the track list reports a selection made inside the
\* list with a command and rebuilds its items from the animation on sync.
ToolbarHandleUiMessage(msg, sel) ==
    IF msg.destination = "toolbar" /\ msg.direction = "FromWidget"
    THEN << SenderEffect(Command("ToolbarCommand", sel.animation_player,
                                 sel.animation, NoCurve)) >>
    ELSE << >>
TrackListHandleUiMessage(msg, sel) ==
    IF msg.destination = "track_list" /\ msg.direction = "FromWidget"
    THEN << SenderEffect(Command("TrackListCommand", sel.animation_player,
                                 sel.animation, NoCurve)) >>
    ELSE << >>
ToolbarSyncToModel(animation_player, sel) ==
    << UiEffect(UiMessage("toolbar", "ToWidget", ToolbarData)) >>
TrackListSyncToModel(tracks) ==
    << UiEffect(UiMessage("track_list", "ToWidget", TrackListData(Len(tracks)))) >>

\* ------------------------------------------------------- handle_ui_message
\* Mutant: the command names the animation where the player belongs.
CurveEditorHandleUiMessage_SwappedHandles(msg, sel) ==
    IF /\ IsCurveEditorMessage(msg.data)
       /\ msg.destination = "curve_editor"
       /\ msg.direction = "FromWidget"
    THEN
        CASE msg.data.type = "CurveEditorMessage::Sync" ->
                << SenderEffect(ReplaceTrackCurveCommand(
                       sel.animation, sel.animation_player,
                       CloneCurve(msg.data.curve))) >>
          [] msg.data.type = "CurveEditorMessage::ViewPosition" ->
                << UiEffect(UiMessage("ruler", "ToWidget",
                                      RulerViewPosition(msg.data.vec[1]))) >>
          [] msg.data.type = "CurveEditorMessage::Zoom" ->
                << UiEffect(UiMessage("ruler", "ToWidget",
                                      RulerZoom(msg.data.vec[1]))) >>
          [] OTHER -> << >>
    ELSE << >>

\* Mutant: the ruler is given the y coordinate.
CurveEditorHandleUiMessage_ForwardsY(msg, sel) ==
    IF /\ IsCurveEditorMessage(msg.data)
       /\ msg.destination = "curve_editor"
       /\ msg.direction = "FromWidget"
    THEN
        CASE msg.data.type = "CurveEditorMessage::Sync" ->
                << SenderEffect(ReplaceTrackCurveCommand(
                       sel.animation_player, sel.animation,
                       CloneCurve(msg.data.curve))) >>
          [] msg.data.type = "CurveEditorMessage::ViewPosition" ->
                << UiEffect(UiMessage("ruler", "ToWidget",
                                      RulerViewPosition(msg.data.vec[2]))) >>
          [] msg.data.type = "CurveEditorMessage::Zoom" ->
                << UiEffect(UiMessage("ruler", "ToWidget",
                                      RulerZoom(msg.data.vec[2]))) >>
          [] OTHER -> << >>
    ELSE << >>

\* Mutant: after the command the ruler is sent back to the origin.
CurveEditorHandleUiMessage_ResetsRuler(msg, sel) ==
    IF /\ IsCurveEditorMessage(msg.data)
       /\ msg.destination = "curve_editor"
       /\ msg.direction = "FromWidget"
    THEN
        CASE msg.data.type = "CurveEditorMessage::Sync" ->
                << SenderEffect(ReplaceTrackCurveCommand(
                       sel.animation_player, sel.animation,
                       CloneCurve(msg.data.curve))),
                   UiEffect(UiMessage("ruler", "ToWidget", RulerViewPosition(0))) >>
          [] msg.data.type = "CurveEditorMessage::ViewPosition" ->
                << UiEffect(UiMessage("ruler", "ToWidget",
                                      RulerViewPosition(msg.data.vec[1]))) >>
          [] msg.data.type = "CurveEditorMessage::Zoom" ->
                << UiEffect(UiMessage("ruler", "ToWidget",
                                      RulerZoom(msg.data.vec[1]))) >>
          [] OTHER -> << >>
    ELSE << >>

\* Mutant: the direction of the message is not looked at.
CurveEditorHandleUiMessage_AnyDirection(msg, sel) ==
    IF /\ IsCurveEditorMessage(msg.data)
       /\ msg.destination = "curve_editor"
    THEN
        CASE msg.data.type = "CurveEditorMessage::Sync" ->
                << SenderEffect(ReplaceTrackCurveCommand(
                       sel.animation_player, sel.animation,
                       CloneCurve(msg.data.curve))) >>
          [] msg.data.type = "CurveEditorMessage::ViewPosition" ->
                << UiEffect(UiMessage("ruler", "ToWidget",
                                      RulerViewPosition(msg.data.vec[1]))) >>
          [] msg.data.type = "CurveEditorMessage::Zoom" ->
                << UiEffect(UiMessage("ruler", "ToWidget",
                                      RulerZoom(msg.data.vec[1]))) >>
          [] OTHER -> << >>
    ELSE << >>

\* The curve editor part of handle_ui_message.
CurveEditorHandleUiMessage(msg, sel) ==
    IF /\ IsCurveEditorMessage(msg.data)
       /\ msg.destination = "curve_editor"
       /\ msg.direction = "FromWidget"
    THEN
        CASE msg.data.type = "CurveEditorMessage::Sync" ->
                << SenderEffect(ReplaceTrackCurveCommand(
                       sel.animation_player, sel.animation,
                       CloneCurve(msg.data.curve))) >>
          [] msg.data.type = "CurveEditorMessage::ViewPosition" ->
                << UiEffect(UiMessage("ruler", "ToWidget",
                                      RulerViewPosition(msg.data.vec[1]))) >>
          [] msg.data.type = "CurveEditorMessage::Zoom" ->
                << UiEffect(UiMessage("ruler", "ToWidget",
                                      RulerZoom(msg.data.vec[1]))) >>
          [] OTHER -> << >>
    ELSE << >>

\* Mutant: any live node is dispatched to, with or without the component.
handle_ui_message_AnyNode(msg, editor_scene, editor_selection, g) ==
    IF editor_scene THEN
        LET sel == fetch_selection(editor_selection)
        IN  IF try_get(g, sel.animation_player) THEN
                << CallEffect("Toolbar::handle_ui_message") >>
                \o ToolbarHandleUiMessage(msg, sel)
                \o << CallEffect("TrackList::handle_ui_message") >>
                \o TrackListHandleUiMessage(msg, sel)
                \o CurveEditorHandleUiMessage(msg, sel)
            ELSE << >>
    ELSE << >>

\* Mutant: the track list handles the event before the toolbar.
handle_ui_message_TrackListFirst(msg, editor_scene, editor_selection, g) ==
    IF editor_scene THEN
        LET sel == fetch_selection(editor_selection)
        IN  IF HasAnimationPlayer(g, sel.animation_player) THEN
                << CallEffect("TrackList::handle_ui_message") >>
                \o TrackListHandleUiMessage(msg, sel)
                \o << CallEffect("Toolbar::handle_ui_message") >>
                \o ToolbarHandleUiMessage(msg, sel)
                \o CurveEditorHandleUiMessage(msg, sel)
            ELSE << >>
    ELSE << >>

handle_ui_message(msg, editor_scene, editor_selection, g) ==
    IF editor_scene THEN
        LET sel == fetch_selection(editor_selection)
        IN  IF HasAnimationPlayer(g, sel.animation_player) THEN
                << CallEffect("Toolbar::handle_ui_message") >>
                \o ToolbarHandleUiMessage(msg, sel)
                \o << CallEffect("TrackList::handle_ui_message") >>
                \o TrackListHandleUiMessage(msg, sel)
                \o CurveEditorHandleUiMessage(msg, sel)
            ELSE << >>
    ELSE << >>

\* ----------------------------------------------------------- sync_to_model
\* Mutant: the viewport is fitted before the curve is pushed.
CurveEditorSyncToModel_ZoomFirst(tracks, entities) ==
    IF Len(entities) > 0 /\ Head(entities).kind = "Curve" THEN
        LET selected_curve == FindCurve(tracks, Head(entities).id)
        IN  IF selected_curve # NoCurve THEN
                << UiEffect(UiMessage("curve_editor", "ToWidget", CurveEditorZoomToFit)),
                   UiEffect(UiMessage("curve_editor", "ToWidget",
                                      CurveEditorSync(CloneCurve(selected_curve)))) >>
            ELSE << >>
    ELSE << >>

\* Mutant: the pushed curve is also submitted as a command.
CurveEditorSyncToModel_Submits(tracks, entities) ==
    IF Len(entities) > 0 /\ Head(entities).kind = "Curve" THEN
        LET selected_curve == FindCurve(tracks, Head(entities).id)
        IN  IF selected_curve # NoCurve THEN
                << UiEffect(UiMessage("curve_editor", "ToWidget",
                                      CurveEditorSync(CloneCurve(selected_curve)))),
                   SenderEffect(ReplaceTrackCurveCommand(NONE, NONE, CloneCurve(selected_curve))),
                   UiEffect(UiMessage("curve_editor", "ToWidget", CurveEditorZoomToFit)) >>
            ELSE << >>
    ELSE << >>

\* Mutant: the first curve among the entities is pushed, wherever it stands.
CurveEditorSyncToModel_AnyCurve(tracks, entities) ==
    LET curves == SelectSeq(entities, LAMBDA e : e.kind = "Curve")
    IN  IF Len(curves) > 0 THEN
            LET selected_curve == FindCurve(tracks, Head(curves).id)
            IN  IF selected_curve # NoCurve THEN
                    << UiEffect(UiMessage("curve_editor", "ToWidget",
                                          CurveEditorSync(CloneCurve(selected_curve)))),
                       UiEffect(UiMessage("curve_editor", "ToWidget", CurveEditorZoomToFit)) >>
                ELSE << >>
        ELSE << >>

\* The curve editor part of sync_to_model, for a resolved animation.
CurveEditorSyncToModel(tracks, entities) ==
    IF Len(entities) > 0 /\ Head(entities).kind = "Curve" THEN
        LET selected_curve == FindCurve(tracks, Head(entities).id)
        IN  IF selected_curve # NoCurve THEN
                << UiEffect(UiMessage("curve_editor", "ToWidget",
                                      CurveEditorSync(CloneCurve(selected_curve)))),
                   UiEffect(UiMessage("curve_editor", "ToWidget", CurveEditorZoomToFit)) >>
            ELSE << >>
    ELSE << >>

\* Mutant: the toolbar is synchronised before the component is looked up.
sync_to_model_ToolbarFirst(editor_selection, g) ==
    LET sel == fetch_selection(editor_selection)
    IN  << CallEffect("Toolbar::sync_to_model") >>
        \o ToolbarSyncToModel(FreeSlot, sel)
        \o (IF HasAnimationPlayer(g, sel.animation_player) THEN
                LET animation_player == g[sel.animation_player]
                IN  (IF HasAnimation(animation_player, sel.animation) THEN
                        << CallEffect("TrackList::sync_to_model") >>
                        \o TrackListSyncToModel(animation_player.tracks)
                        \o CurveEditorSyncToModel(animation_player.tracks, sel.entities)
                     ELSE << >>)
                    \o << UiEffect(UiMessage("content", "ToWidget", Visibility(TRUE))) >>
             ELSE << UiEffect(UiMessage("content", "ToWidget", Visibility(FALSE))) >>)

\* Mutant: the curve editor is refreshed only by the first of two calls.
sync_to_model_OnlyOnce(editor_selection, g) ==
    LET sel == fetch_selection(editor_selection)
    IN  IF HasAnimationPlayer(g, sel.animation_player) THEN
            LET animation_player == g[sel.animation_player]
            IN  << CallEffect("Toolbar::sync_to_model") >>
                \o ToolbarSyncToModel(animation_player, sel)
                \o (IF HasAnimation(animation_player, sel.animation) THEN
                        << CallEffect("TrackList::sync_to_model") >>
                        \o TrackListSyncToModel(animation_player.tracks)
                        \o (IF lastOp = "sync_to_model" THEN << >>
                            ELSE CurveEditorSyncToModel(animation_player.tracks, sel.entities))
                    ELSE << >>)
                \o << UiEffect(UiMessage("content", "ToWidget", Visibility(TRUE))) >>
        ELSE << UiEffect(UiMessage("content", "ToWidget", Visibility(FALSE))) >>

\* Mutant: the panel is shown on both branches.
sync_to_model_AlwaysVisible(editor_selection, g) ==
    LET sel == fetch_selection(editor_selection)
    IN  IF HasAnimationPlayer(g, sel.animation_player) THEN
            LET animation_player == g[sel.animation_player]
            IN  << CallEffect("Toolbar::sync_to_model") >>
                \o ToolbarSyncToModel(animation_player, sel)
                \o (IF HasAnimation(animation_player, sel.animation) THEN
                        << CallEffect("TrackList::sync_to_model") >>
                        \o TrackListSyncToModel(animation_player.tracks)
                        \o CurveEditorSyncToModel(animation_player.tracks, sel.entities)
                    ELSE << >>)
                \o << UiEffect(UiMessage("content", "ToWidget", Visibility(TRUE))) >>
        ELSE << UiEffect(UiMessage("content", "ToWidget", Visibility(TRUE))) >>

sync_to_model(editor_selection, g) ==
    LET sel == fetch_selection(editor_selection)
    IN  IF HasAnimationPlayer(g, sel.animation_player) THEN
            LET animation_player == g[sel.animation_player]
            IN  << CallEffect("Toolbar::sync_to_model") >>
                \o ToolbarSyncToModel(animation_player, sel)
                \o (IF HasAnimation(animation_player, sel.animation) THEN
                        << CallEffect("TrackList::sync_to_model") >>
                        \o TrackListSyncToModel(animation_player.tracks)
                        \o CurveEditorSyncToModel(animation_player.tracks, sel.entities)
                    ELSE << >>)
                \o << UiEffect(UiMessage("content", "ToWidget", Visibility(TRUE))) >>
        ELSE << UiEffect(UiMessage("content", "ToWidget", Visibility(FALSE))) >>

\* -------------------------------------------------------------------- open
\* Mutant: opening the window also shows the content panel.
open_ShowsContent ==
    << UiEffect(UiMessage("window", "ToWidget", WindowOpen(TRUE))),
       UiEffect(UiMessage("content", "ToWidget", Visibility(TRUE))) >>

open == << UiEffect(UiMessage("window", "ToWidget", WindowOpen(TRUE))) >>

\* ------------------------------------------------------------- initial state
NoSelection == [animation_player |-> NONE, animation |-> NONE, entities |-> << >>]
\* no sync_to_model directly before the last call
NoSync == << NoMessage >>

Init ==
    /\ selection = OtherSelection
    /\ graph = [n \in Nodes |-> FreeSlot]
    /\ lastOp = "none"
    /\ message = NoMessage
    /\ scene_given = FALSE
    /\ resolved = NoSelection
    /\ ui = << >>
    /\ sender = << >>
    /\ prev_sync = NoSync
    /\ log = << >>
    /\ outcome = "none"
    /\ receiver_alive = TRUE
    /\ content_visible = TRUE

\* --------------------------------------------------------------- environment
\* Nothing was called since the scene or the selection changed.
Forget ==
    /\ lastOp' = "none"
    /\ message' = NoMessage
    /\ scene_given' = FALSE
    /\ resolved' = NoSelection
    /\ ui' = << >>
    /\ sender' = << >>
    /\ prev_sync' = NoSync
    /\ log' = << >>
    /\ outcome' = "none"

\* The effects of the last call are consumed.
Drain ==
    /\ lastOp # "none"
    /\ outcome # "panicked"
    /\ UNCHANGED <<selection, graph, receiver_alive, content_visible>>
    /\ Forget

\* The editor clears the selection, or selects something while nothing is
\* selected; a change from one selection to another is the two in a row.
SelectionChanged ==
    /\ lastOp = "none"
    /\ \E s \in Selections :
            /\ selection = OtherSelection \/ s = OtherSelection
            /\ selection' = s
    /\ selection' # selection
    /\ UNCHANGED <<graph, receiver_alive, content_visible>>
    /\ Forget

\* A node is deleted or created, with or without the AnimationPlayer component.
NodeChanged ==
    /\ lastOp = "none"
    /\ \E n \in Nodes, v \in { FreeSlot, PlainNode } \cup { p \in PlayerNodes : ~p.has_animation } :
            graph' = [graph EXCEPT ![n] = v]
    /\ graph' # graph
    /\ UNCHANGED <<selection, receiver_alive, content_visible>>
    /\ Forget

\* The animation of a player is created or removed (also by an executed
\* command, an undo or a redo); an edit is the two in a row.  One player of
\* the scene at a time holds an animation.
AnimationChanged ==
    /\ lastOp = "none"
    /\ \E n \in Nodes, v \in PlayerNodes :
            /\ graph[n].kind = "player"
            /\ graph[n].has_animation # v.has_animation
            /\ graph' = [graph EXCEPT ![n] = v]
    /\ graph' # graph
    /\ \A n, m \in Nodes : (graph'[n].has_animation /\ graph'[m].has_animation) => n = m
    /\ UNCHANGED <<selection, receiver_alive, content_visible>>
    /\ Forget

\* The receiver of the command channel is dropped.
ReceiverDropped ==
    /\ lastOp = "none"
    /\ receiver_alive
    /\ receiver_alive' = FALSE
    /\ UNCHANGED <<selection, graph, content_visible>>
    /\ Forget

\* -------------------------------------------------------------- entry points
Open ==
    /\ lastOp' = "open"
    /\ message' = NoMessage
    /\ scene_given' = FALSE
    /\ resolved' = NoSelection
    /\ ui' = UiOf(open)
    /\ sender' = SenderOf(open)
    /\ prev_sync' = NoSync
    /\ log' = open
    /\ outcome' = "returned"
    /\ content_visible' = ShowOrHide(content_visible, UiOf(open))
    /\ UNCHANGED <<selection, graph, receiver_alive>>

HandleUiMessage(m, scene) ==
    LET attempted == handle_ui_message(m, scene, selection, graph)
        effects == Completed(attempted, receiver_alive)
    IN  /\ lastOp' = "handle_ui_message"
        /\ message' = m
        /\ scene_given' = scene
        /\ resolved' = IF scene THEN fetch_selection(selection) ELSE NoSelection
        /\ ui' = UiOf(effects)
        /\ sender' = SenderOf(effects)
        /\ prev_sync' = IF lastOp = "sync_to_model" THEN ui ELSE NoSync
        /\ log' = effects
        /\ outcome' = IF Panics(attempted, receiver_alive) THEN "panicked" ELSE "returned"
        /\ content_visible' = ShowOrHide(content_visible, UiOf(effects))
        /\ UNCHANGED <<selection, graph, receiver_alive>>

SyncToModel ==
    LET effects == sync_to_model(selection, graph)
    IN  /\ lastOp' = "sync_to_model"
        /\ message' = NoMessage
        /\ scene_given' = TRUE
        /\ resolved' = fetch_selection(selection)
        /\ ui' = UiOf(effects)
        /\ sender' = SenderOf(effects)
        /\ prev_sync' = IF lastOp = "sync_to_model" THEN ui ELSE NoSync
        /\ log' = effects
        /\ outcome' = "returned"
        /\ content_visible' = ShowOrHide(content_visible, UiOf(effects))
        /\ UNCHANGED <<selection, graph, receiver_alive>>

\* Messages the user interface hands to handle_ui_message.
EventWidgets == { "curve_editor", "toolbar", "track_list" }
UiMessages ==
    [destination : EventWidgets, direction : Directions,
     data : CurveEditorData \cup { OtherData }]
\* Any widget event, with or without a scene, once the last one is consumed.
UiEvent ==
    /\ lastOp = "none"
    /\ \E m \in UiMessages, scene \in BOOLEAN : HandleUiMessage(m, scene)

\* Every message of the queue passes through handle_ui_message, and the curve
\* editor reports the curve it was given.
Reported(m) == UiMessage(m.destination, "FromWidget", m.data)
Routed ==
    { ui[i] : i \in 1..Len(ui) }
    \cup { Reported(ui[i]) : i \in { j \in 1..Len(ui) : ui[j].destination = "curve_editor" } }
UiRouted == \E m \in Routed : HandleUiMessage(m, TRUE)

\* ------------------------------------------------------------ specifications
\* The render path with the routing of what it sends.
Next ==
    \/ Drain
    \/ SelectionChanged
    \/ NodeChanged
    \/ AnimationChanged
    \/ Open
    \/ SyncToModel
    \/ UiRouted
Spec == Init /\ [][Next]_vars

\* The event path with every widget event.
NextEvent ==
    \/ Drain
    \/ SelectionChanged
    \/ NodeChanged
    \/ UiEvent
SpecEvent == Init /\ [][NextEvent]_vars

\* The event path with a command channel that may lose its receiver.
NextChannel ==
    \/ Drain
    \/ SelectionChanged
    \/ NodeChanged
    \/ ReceiverDropped
    \/ UiEvent
SpecChannel == Init /\ [][NextChannel]_vars

\* --------------------------------------------------------------- properties
IsVisibility(m) == m.destination = "content" /\ m.data.type = "WidgetMessage::Visibility"
\* The flag of the last visibility message in a queue that has one.
RECURSIVE LastVisibility(_)
LastVisibility(q) ==
    IF IsVisibility(q[Len(q)]) THEN q[Len(q)].data.flag
    ELSE LastVisibility(SubSeq(q, 1, Len(q) - 1))
\* The player the last call resolved is a node of the graph with the component.
PlayerPresent ==
    /\ resolved.animation_player \in Nodes
    /\ graph[resolved.animation_player].kind = "player"
\* The animation the last call resolved is in the container of that player.
AnimationPresent ==
    /\ PlayerPresent
    /\ resolved.animation = 1
    /\ graph[resolved.animation_player].has_animation
ResolvedTracks == graph[resolved.animation_player].tracks
\* Some track of the resolved animation holds a curve with this identity.
CurveStored(id) ==
    \E t \in 1..Len(ResolvedTracks) :
        \E k \in 1..Len(ResolvedTracks[t]) : ResolvedTracks[t][k].id = id
FirstIsCurve ==
    /\ Len(resolved.entities) > 0
    /\ resolved.entities[1].kind = "Curve"
FromCurveEditor(type) ==
    /\ lastOp = "handle_ui_message"
    /\ scene_given
    /\ message.destination = "curve_editor"
    /\ message.direction = "FromWidget"
    /\ message.data.type = type
ToCurveEditor(q) == { i \in 1..Len(q) : q[i].destination = "curve_editor" }

\* C1: after a sync_to_model the last visibility value sent to the content
\* panel is true exactly when the resolved player is a node of the graph
\* that carries the AnimationPlayer component (false for a null or stale
\* handle and for a node without the component).
C1_Visibility ==
    lastOp = "sync_to_model" =>
        /\ \E i \in 1..Len(ui) : IsVisibility(ui[i])
        /\ LastVisibility(ui) = PlayerPresent
C1_Witness ==
    /\ lastOp = "sync_to_model"
    /\ PlayerPresent
    /\ LastVisibility(ui) = TRUE
    /\ \E n \in Nodes : graph[n].kind = "node"

\* C2: a Sync(C') reported by the curve editor while the resolved player has
\* the component puts exactly one ReplaceTrackCurveCommand with the resolved
\* player, the resolved animation and C' on the command channel and sends no
\* message to the user interface.
C2_SyncCommand ==
    (FromCurveEditor("CurveEditorMessage::Sync") /\ PlayerPresent) =>
        /\ sender = << ReplaceTrackCurveCommand(resolved.animation_player,
                                                resolved.animation,
                                                message.data.curve) >>
        /\ ui = << >>
C2_Witness ==
    /\ FromCurveEditor("CurveEditorMessage::Sync")
    /\ PlayerPresent
    /\ resolved.animation = 1
    /\ Len(sender) = 1
    /\ sender[1].curve.id = 2

\* C3: a ViewPosition(p) or Zoom(z) reported by the curve editor while the
\* resolved player has the component sends the ruler exactly one message,
\* ViewPosition(p.x) respectively Zoom(z.x), and puts nothing on the command
\* channel.
C3_RulerRelay ==
    /\ (FromCurveEditor("CurveEditorMessage::ViewPosition") /\ PlayerPresent) =>
            /\ ui = << UiMessage("ruler", "ToWidget", RulerViewPosition(message.data.vec[1])) >>
            /\ sender = << >>
    /\ (FromCurveEditor("CurveEditorMessage::Zoom") /\ PlayerPresent) =>
            /\ ui = << UiMessage("ruler", "ToWidget", RulerZoom(message.data.vec[1])) >>
            /\ sender = << >>
C3_Witness ==
    /\ FromCurveEditor("CurveEditorMessage::ViewPosition")
    /\ PlayerPresent
    /\ message.data.vec = <<42, 0>>
    /\ ui = << UiMessage("ruler", "ToWidget", RulerViewPosition(42)) >>

\* C4: a sync_to_model step puts nothing on the command channel and leaves
\* the scene graph with its players, animations, tracks and curves, and the
\* selection, as they were; all it sends are messages to the user interface.
C4_SyncOnlyUpdatesWidgets ==
    [][lastOp' = "sync_to_model" =>
            /\ sender' = << >>
            /\ graph' = graph
            /\ selection' = selection
            /\ Len(ui') > 0]_vars
C4_Witness ==
    /\ lastOp = "sync_to_model"
    /\ AnimationPresent
    /\ ToCurveEditor(ui) # {}
    /\ sender = << >>

\* C5: when the curve editor reports back, unchanged, the curve C that the
\* sync_to_model directly before pushed into it, the call submits one
\* ReplaceTrackCurveCommand whose curve is C: the identity and the key frame
\* sequence of the curve stored in the model.
C5_RoundTrip ==
    ( /\ FromCurveEditor("CurveEditorMessage::Sync")
      /\ prev_sync # NoSync
      /\ \E i \in ToCurveEditor(prev_sync) :
            prev_sync[i] = UiMessage("curve_editor", "ToWidget",
                                     CurveEditorSync(message.data.curve)) ) =>
        /\ Len(sender) = 1
        /\ sender[1].type = "ReplaceTrackCurveCommand"
        /\ sender[1].curve = message.data.curve
        /\ \E t \in 1..Len(ResolvedTracks) : \E k \in 1..Len(ResolvedTracks[t]) :
                /\ ResolvedTracks[t][k].id = resolved.entities[1].id
                /\ sender[1].curve.id = ResolvedTracks[t][k].id
                /\ sender[1].curve.keys = ResolvedTracks[t][k].keys
C5_Witness ==
    /\ FromCurveEditor("CurveEditorMessage::Sync")
    /\ prev_sync # NoSync
    /\ Len(sender) = 1
    /\ sender[1].curve.id = 1
    /\ Len(sender[1].curve.keys) = 2

\* C6: a sync_to_model with the player and the animation resolved, Curve(id)
\* first in the entities and a curve with that identity in some track sends
\* the curve editor Sync with a copy of that stored curve, directly followed
\* by ZoomToFit, and both before the visibility = true message that ends the
\* call.
C6_PushSelectedCurve ==
    ( /\ lastOp = "sync_to_model"
      /\ AnimationPresent
      /\ FirstIsCurve
      /\ CurveStored(resolved.entities[1].id) ) =>
        \E i \in 1..(Len(ui) - 2) :
            /\ ToCurveEditor(ui) = { i, i + 1 }
            /\ ui[i].direction = "ToWidget"
            /\ ui[i].data.type = "CurveEditorMessage::Sync"
            /\ ui[i].data.curve.id = resolved.entities[1].id
            /\ \E t \in 1..Len(ResolvedTracks) : \E k \in 1..Len(ResolvedTracks[t]) :
                    ui[i].data.curve = ResolvedTracks[t][k]
            /\ ui[i + 1] = UiMessage("curve_editor", "ToWidget", CurveEditorZoomToFit)
            /\ ui[Len(ui)] = UiMessage("content", "ToWidget", Visibility(TRUE))
C6_Witness ==
    /\ lastOp = "sync_to_model"
    /\ AnimationPresent
    /\ FirstIsCurve
    /\ Len(ResolvedTracks) = 2
    /\ ResolvedTracks[1] = << >>
    /\ CurveStored(resolved.entities[1].id)
    /\ Len(ui) = 5

\* C7: a sync_to_model with the player and the animation resolved and
\* Curve(id) first in the entities, while no track holds a curve with that
\* identity, sends the curve editor nothing and still ends with
\* visibility = true.
C7_CurveNotFound ==
    ( /\ lastOp = "sync_to_model"
      /\ AnimationPresent
      /\ FirstIsCurve
      /\ ~CurveStored(resolved.entities[1].id) ) =>
        /\ ToCurveEditor(ui) = {}
        /\ ui[Len(ui)] = UiMessage("content", "ToWidget", Visibility(TRUE))
C7_Witness ==
    /\ lastOp = "sync_to_model"
    /\ AnimationPresent
    /\ FirstIsCurve
    /\ ~CurveStored(resolved.entities[1].id)
    /\ Len(ResolvedTracks) = 2
    /\ ResolvedTracks[2] # << >>
    /\ ToCurveEditor(ui) = {}

\* C8: a sync_to_model whose resolved player is null, stale or without the
\* component sends exactly one message, visibility = false to the content
\* panel: nothing goes to the toolbar, the track list or the curve editor.
C8_HiddenOnly ==
    (lastOp = "sync_to_model" /\ ~PlayerPresent) =>
        ui = << UiMessage("content", "ToWidget", Visibility(FALSE)) >>
C8_Witness ==
    /\ lastOp = "sync_to_model"
    /\ resolved.animation_player \in Nodes
    /\ graph[resolved.animation_player].kind = "free"
    /\ resolved.animation = 1
    /\ FirstIsCurve
    /\ ui = << UiMessage("content", "ToWidget", Visibility(FALSE)) >>

C10_Resolver ==
    (lastOp = "sync_to_model" \/ (lastOp = "handle_ui_message" /\ scene_given)) =>
        /\ selection.scope = "Animation" =>
                /\ resolved.animation_player = selection.animation_player
                /\ resolved.animation = selection.animation
                /\ resolved.entities = selection.entities
        /\ (selection.scope = "Graph" /\ Len(selection.nodes) >= 1) =>
                /\ resolved.animation_player = selection.nodes[1]
                /\ resolved.animation = NONE
                /\ resolved.entities = << >>
        /\ (selection.scope # "Animation"
            /\ ~(selection.scope = "Graph" /\ Len(selection.nodes) >= 1)) =>
                /\ resolved.animation_player = NONE
                /\ resolved.animation = NONE
                /\ resolved.entities = << >>
C10_Witness ==
    /\ lastOp = "sync_to_model"
    /\ selection.scope = "Graph"
    /\ Len(selection.nodes) = 2
    /\ selection.nodes[1] # selection.nodes[2]
    /\ resolved.animation_player = selection.nodes[1]

\* C11: the AnimationSelection a call resolved has no entities whenever its
\* animation is null, whatever the editor selection is.
C11_EntitiesNeedAnimation ==
    (lastOp = "sync_to_model" \/ (lastOp = "handle_ui_message" /\ scene_given)) =>
        (resolved.animation = NONE => resolved.entities = << >>)

\* What the log of the last call holds.
CallsOf(callee) == { i \in 1..Len(log) : log[i] = CallEffect(callee) }
CommandsOf(type) ==
    { i \in 1..Len(log) : log[i].channel = "sender" /\ log[i].command.type = type }
RulerRelays ==
    { i \in 1..Len(log) : log[i].channel = "ui" /\ log[i].message.destination = "ruler" }

\* C12: handle_ui_message without an editor scene, or with a resolved player
\* that does not carry the component, calls neither the toolbar nor the track
\* list nor the curve editor part, sends no message and submits no command;
\* a Sync reported by the curve editor gives no ReplaceTrackCurveCommand.
C12_NoDispatch ==
    (lastOp = "handle_ui_message" /\ (~scene_given \/ ~PlayerPresent)) =>
        /\ log = << >>
        /\ ui = << >>
        /\ sender = << >>
        /\ outcome = "returned"
C12_Witness ==
    /\ FromCurveEditor("CurveEditorMessage::Sync")
    /\ resolved.animation_player \in Nodes
    /\ graph[resolved.animation_player].kind = "node"
    /\ sender = << >>
    /\ log = << >>

\* C13: the curve editor part of one handle_ui_message submits at most one
\* command, and no message to the ruler follows that command.
C13_OneCommandAfterRelays ==
    lastOp = "handle_ui_message" =>
        /\ Cardinality(CommandsOf("ReplaceTrackCurveCommand")) <= 1
        /\ \A c \in CommandsOf("ReplaceTrackCurveCommand") : \A r \in RulerRelays : r < c
C13_Witness ==
    /\ FromCurveEditor("CurveEditorMessage::Sync")
    /\ Cardinality(CommandsOf("ReplaceTrackCurveCommand")) = 1
    /\ log[Len(log)].channel = "sender"

\* C14: a Sync reported by the curve editor while the receiver of the command
\* channel is gone makes handle_ui_message panic: the call does not return,
\* nothing is submitted, and the toolbar and the track list handled the event
\* before the panic.
C14_ClosedChannelPanics ==
    ( /\ FromCurveEditor("CurveEditorMessage::Sync")
      /\ PlayerPresent
      /\ ~receiver_alive ) =>
        /\ outcome = "panicked"
        /\ sender = << >>
        /\ log = << CallEffect("Toolbar::handle_ui_message"),
                    CallEffect("TrackList::handle_ui_message") >>
C14_Witness ==
    /\ FromCurveEditor("CurveEditorMessage::Sync")
    /\ PlayerPresent
    /\ ~receiver_alive
    /\ outcome = "panicked"
    /\ Len(log) = 2

\* C15: open sends one message, the request to open the editor window, and
\* does nothing else: no selection is resolved, no widget content is
\* synchronised, the content panel keeps its visibility, no command is
\* submitted and the scene is left alone.
C15_OpenOnly ==
    [][lastOp' = "open" =>
            /\ log' = << UiEffect(UiMessage("window", "ToWidget", WindowOpen(TRUE))) >>
            /\ ui' = << UiMessage("window", "ToWidget", WindowOpen(TRUE)) >>
            /\ sender' = << >>
            /\ resolved' = NoSelection
            /\ content_visible' = content_visible
            /\ graph' = graph
            /\ selection' = selection]_vars
C15_Witness ==
    /\ lastOp = "open"
    /\ ~content_visible
    /\ Len(ui) = 1
    /\ ui[1].data.type = "WindowMessage::Open"

\* C16: a sync_to_model whose resolved player carries the component calls the
\* sync of the toolbar and the sync of the track list and ends by showing the
\* content panel, also when the animation handle is null or names no
\* animation of the player.
C16_ToolbarAndTrackListSynced ==
    (lastOp = "sync_to_model" /\ PlayerPresent) =>
        /\ CallsOf("Toolbar::sync_to_model") # {}
        /\ CallsOf("TrackList::sync_to_model") # {}
        /\ ui[Len(ui)] = UiMessage("content", "ToWidget", Visibility(TRUE))

\* C17: a handle_ui_message with the component present calls the toolbar
\* first, then the track list, then runs the curve editor part: a command of
\* the toolbar lies between the two calls, a command of the track list after
\* the second and before anything the curve editor part does, and the
\* ReplaceTrackCurveCommand carries the player and the animation resolved at
\* the start of the call.
C17_DispatchOrder ==
    (lastOp = "handle_ui_message" /\ scene_given /\ PlayerPresent) =>
        \E l \in 2..Len(log) :
            /\ CallsOf("Toolbar::handle_ui_message") = { 1 }
            /\ CallsOf("TrackList::handle_ui_message") = { l }
            /\ \A i \in CommandsOf("ToolbarCommand") : 1 < i /\ i < l
            /\ \A i \in CommandsOf("TrackListCommand") : l < i
            /\ \A i \in CommandsOf("ReplaceTrackCurveCommand") \cup RulerRelays :
                    /\ l < i
                    /\ \A j \in CommandsOf("TrackListCommand") : j < i
            /\ \A i \in CommandsOf("ReplaceTrackCurveCommand") :
                    /\ log[i].command.animation_player = resolved.animation_player
                    /\ log[i].command.animation = resolved.animation
C17_Witness ==
    /\ lastOp = "handle_ui_message"
    /\ PlayerPresent
    /\ message.destination = "toolbar"
    /\ message.direction = "FromWidget"
    /\ CommandsOf("ToolbarCommand") = { 2 }
    /\ CallsOf("TrackList::handle_ui_message") = { 3 }

\* C18: a sync_to_model whose entities are empty or start with something
\* that is not a curve sends the curve editor nothing, also when a later
\* entity is a curve stored in the resolved animation.
C18_FirstEntityOnly ==
    (lastOp = "sync_to_model" /\ ~FirstIsCurve) => ToCurveEditor(ui) = {}
C18_Witness ==
    /\ lastOp = "sync_to_model"
    /\ AnimationPresent
    /\ Len(resolved.entities) = 2
    /\ resolved.entities[1].kind = "Track"
    /\ resolved.entities[2].kind = "Curve"
    /\ CurveStored(resolved.entities[2].id)
    /\ ToCurveEditor(ui) = {}

\* C19: handle_ui_message submits a ReplaceTrackCurveCommand or sends the
\* ruler a message only for a Sync, ViewPosition or Zoom whose destination is
\* the curve editor and whose direction is FromWidget; the Sync and the
\* ZoomToFit that sync_to_model sent to the curve editor, handed back to
\* handle_ui_message, give neither.
C19_NoFeedback ==
    lastOp = "handle_ui_message" =>
        /\ (CommandsOf("ReplaceTrackCurveCommand") \cup RulerRelays # {}) =>
                /\ message.destination = "curve_editor"
                /\ message.direction = "FromWidget"
                /\ message.data.type \in { "CurveEditorMessage::Sync",
                                           "CurveEditorMessage::ViewPosition",
                                           "CurveEditorMessage::Zoom" }
        /\ ( /\ prev_sync # NoSync
             /\ message.direction = "ToWidget"
             /\ \E i \in ToCurveEditor(prev_sync) : prev_sync[i] = message ) =>
                /\ sender = << >>
                /\ ui = << >>
C19_Witness ==
    /\ lastOp = "handle_ui_message"
    /\ PlayerPresent
    /\ prev_sync # NoSync
    /\ message.destination = "curve_editor"
    /\ message.direction = "ToWidget"
    /\ message.data.type = "CurveEditorMessage::Sync"
    /\ sender = << >>
    /\ ui = << >>

\* C20: a sync_to_model sends exactly one visibility message and leaves the
\* content panel visible exactly when the resolved player carries the
\* component; open, handle_ui_message and a change of the scene send none and
\* leave the panel as the last sync_to_model left it.
C20_PanelFollowsSync ==
    [][/\ lastOp' = "sync_to_model" =>
            /\ Cardinality({ i \in 1..Len(ui') : IsVisibility(ui'[i]) }) = 1
            /\ content_visible' = PlayerPresent'
       /\ lastOp' # "sync_to_model" =>
            /\ { i \in 1..Len(ui') : IsVisibility(ui'[i]) } = {}
            /\ content_visible' = content_visible]_vars
C20_Witness ==
    /\ lastOp = "handle_ui_message"
    /\ prev_sync # NoSync
    /\ ~PlayerPresent
    /\ ~content_visible

====
